---- MODULE Spec2Model ----
(***************************************************************************)
(* Model of scripts/check_docstrings.py: the export-documentation coverage *)
(* analyzer.  Text is modelled as sequences of one-character strings, so   *)
(* that strip(), startswith(), endswith(), split() and the export regular  *)
(* expression are computed the way the code computes them.  Line and loop  *)
(* indices i and j are the 0-based Python indices of the source.           *)
(***************************************************************************)
EXTENDS Integers, Sequences, FiniteSets, TLC

VARIABLES
    tree,                   \* the directory tree on disk (never written by the program)
    run,                    \* number of calls of check_docstrings made so far
    reports,                \* what each earlier call left on stdout, and how it ended
    pc,                     \* position of the current call
    queue,                  \* files os.walk has still to yield
    filepath,               \* path of the file being scanned
    lines,                  \* content.split('\n') of that file
    i,                      \* index of the export line being handled
    j,                      \* index the backward scan is reading
    reads,                  \* the indices j at which lines[j] was read for this export
    item_name,              \* match.group(1)
    has_docstring,
    total_items,
    items_with_docstrings,
    missing_docstrings,
    out                     \* lines printed by the current call

vars == <<tree, run, reports, pc, queue, filepath, lines, i, j, reads, item_name,
          has_docstring, total_items, items_with_docstrings, missing_docstrings, out>>

(***************************************************************************)
(* Bounds of the model.                                                    *)
(***************************************************************************)
\* longest run of blank / decorator lines put between a comment and an export
MaxGap == 10
\* longest file of the family that takes every line from Vocab
MaxShort == 3
\* most files listed in the root directory of the multi-file trees
MaxFiles == 2
\* number of calls of check_docstrings in one behaviour
MaxRuns == 2

(***************************************************************************)
(* Characters and Python string methods.                                   *)
(***************************************************************************)
Max(a, b) == IF a >= b THEN a ELSE b

\* A character is a one-character string; the characters above U+00FF, which a
\* string of this language cannot hold, are written by their escapes.
\* U+000B, U+001C .. U+001F, U+0085 and U+00A0:
VT == ""
FS == ""
GS == ""
RS == ""
US == ""
NEL == ""
NBSP == " "
\* the whitespace above U+00FF
WideSpaces ==
    {"\\u1680", "\\u2000", "\\u2001", "\\u2002", "\\u2003", "\\u2004", "\\u2005",
     "\\u2006", "\\u2007", "\\u2008", "\\u2009", "\\u200a", "\\u2028", "\\u2029",
     "\\u202f", "\\u205f", "\\u3000"}

\* whitespace as str.strip() and the class \s of a str pattern see it: the
\* characters for which str.isspace() holds
Whitespace ==
    {" ", "\t", "\n", "\r", "\f", VT, FS, GS, RS, US, NEL, NBSP} \cup WideSpaces

\* [a-zA-Z0-9_]
WordChars ==
    {"a","b","c","d","e","f","g","h","i","j","k","l","m","n","o","p","q","r","s",
     "t","u","v","w","x","y","z",
     "A","B","C","D","E","F","G","H","I","J","K","L","M","N","O","P","Q","R","S",
     "T","U","V","W","X","Y","Z",
     "0","1","2","3","4","5","6","7","8","9","_"}

\* s.startswith(p)
StartsWith(s, p) == Len(s) >= Len(p) /\ SubSeq(s, 1, Len(p)) = p

\* s.endswith(p)
EndsWith(s, p) == Len(s) >= Len(p) /\ SubSeq(s, Len(s) - Len(p) + 1, Len(s)) = p

\* s.strip()
Strip(s) ==
    LET solid == {k \in 1..Len(s) : s[k] \notin Whitespace}
    IN  IF solid = {} THEN <<>>
        ELSE LET lo == CHOOSE k \in solid : \A m \in solid : k <= m
                 hi == CHOOSE k \in solid : \A m \in solid : k >= m
             IN  SubSeq(s, lo, hi)

\* f.read() of a file opened in text mode (lines 21-22): "\r\n" and "\r" are
\* read as "\n"
RECURSIVE ReadText(_)
ReadText(s) ==
    LET cr == {k \in 1..Len(s) : s[k] = "\r"}
    IN  IF cr = {} THEN s
        ELSE LET k == CHOOSE x \in cr : \A y \in cr : x <= y
                 after == IF k < Len(s) /\ s[k + 1] = "\n" THEN k + 2 ELSE k + 1
             IN  SubSeq(s, 1, k - 1) \o <<"\n">> \o ReadText(SubSeq(s, after, Len(s)))

\* content.split('\n'): always at least one piece.  The pieces of s are the
\* pieces of what stands before any one "\n" followed by the pieces of what
\* stands after it; the "\n" taken is the one nearest after the middle.
RECURSIVE Split(_)
Split(s) ==
    LET nl == {k \in 1..Len(s) : s[k] = "\n"}
        after == {k \in nl : 2 * k >= Len(s)}
    IN  IF nl = {} THEN <<s>>
        ELSE LET k == IF after # {} THEN CHOOSE x \in after : \A y \in after : x <= y
                      ELSE CHOOSE x \in nl : \A y \in nl : x >= y
             IN  Split(SubSeq(s, 1, k - 1)) \o Split(SubSeq(s, k + 1, Len(s)))

\* seq[k] for a Python index k: a negative index counts from the end
InRange(seq, k) == -Len(seq) <= k /\ k < Len(seq)
PyIndex(seq, k) == IF k >= 0 THEN seq[k + 1] ELSE seq[Len(seq) + k + 1]

\* str(n) for n >= 0
Digit(d) == <<"0","1","2","3","4","5","6","7","8","9">>[d + 1]
RECURSIVE Str(_)
Str(n) == IF n < 10 THEN <<Digit(n)>> ELSE Str(n \div 10) \o <<Digit(n % 10)>>

\* os.path.join(a, b)
PathJoin(a, b) ==
    IF StartsWith(b, <<"/">>) THEN b
    ELSE IF a = <<>> \/ EndsWith(a, <<"/">>) THEN a \o b
    ELSE a \o <<"/">> \o b

(***************************************************************************)
(* The export pattern (line 12), searched as re.search does.               *)
(***************************************************************************)
W_export == <<"e","x","p","o","r","t">>
W_async == <<"a","s","y","n","c">>
W_function == <<"f","u","n","c","t","i","o","n">>
W_class == <<"c","l","a","s","s">>
W_const == <<"c","o","n","s","t">>
W_type == <<"t","y","p","e">>
W_interface == <<"i","n","t","e","r","f","a","c","e">>
W_enum == <<"e","n","u","m">>

\* (?:function|class|const|type|interface|enum), in the order of the alternation
DeclKinds == <<W_function, W_class, W_const, W_type, W_interface, W_enum>>

\* whether the literal w stands in s at position p (1-based)
LitAt(s, p, w) == p + Len(w) - 1 <= Len(s) /\ SubSeq(s, p, p + Len(w) - 1) = w

\* the position after the longest run of characters of cls that starts at p
RunEnd(s, p, cls) ==
    LET stops == {k \in p..Len(s) : s[k] \notin cls}
    IN  IF stops = {} THEN Len(s) + 1
        ELSE CHOOSE k \in stops : \A m \in stops : k <= m

\* \s+([a-zA-Z0-9_]+) at p: the captured name, or <<>> when it does not match
NameAt(s, p) ==
    LET q == RunEnd(s, p, Whitespace)
        e == RunEnd(s, q, WordChars)
    IN  IF q > p /\ e > q THEN SubSeq(s, q, e - 1) ELSE <<>>

\* (?:function|...)\s+(name) at p: the first alternative that lets the rest match
KindAt(s, p) ==
    LET ok == {k \in 1..Len(DeclKinds) :
                  LitAt(s, p, DeclKinds[k]) /\ NameAt(s, p + Len(DeclKinds[k])) # <<>>}
    IN  IF ok = {} THEN <<>>
        ELSE LET k == CHOOSE x \in ok : \A y \in ok : x <= y
             IN  NameAt(s, p + Len(DeclKinds[k]))

\* the whole pattern anchored at p: group(1), or <<>> when there is no match
MatchAt(s, p) ==
    IF ~LitAt(s, p, W_export) THEN <<>>
    ELSE LET a == p + Len(W_export)
             b == RunEnd(s, a, Whitespace)
             c == RunEnd(s, b + Len(W_async), Whitespace)
             withAsync == IF b > a /\ LitAt(s, b, W_async) /\ c > b + Len(W_async)
                          THEN KindAt(s, c) ELSE <<>>
         IN  IF b = a THEN <<>>
             ELSE IF withAsync # <<>> THEN withAsync
             ELSE KindAt(s, b)

\* export_pattern.search(line): group(1) of the leftmost match, <<>> for None
ExportSearch(line) ==
    LET hits == {p \in 1..Len(line) : MatchAt(line, p) # <<>>}
    IN  IF hits = {} THEN <<>>
        ELSE MatchAt(line, CHOOSE p \in hits : \A q \in hits : p <= q)

(***************************************************************************)
(* The file system the program reads.  A directory is                      *)
(*   [name, listable, files, dirs]: what os.scandir gives for it, in the   *)
(*   order it gives it, or an OSError when it is not listable;             *)
(* a file is [name, status, content]: open()/read() give content when      *)
(*   status is "ok", raise PermissionError when it is "denied" and         *)
(*   UnicodeDecodeError when it is "undecodable".                          *)
(***************************************************************************)
File(name, status, content) == [name |-> name, status |-> status, content |-> content]
Dir(name, listable, files, dirs) ==
    [name |-> name, listable |-> listable, files |-> files, dirs |-> dirs]

\* os.walk(top) with its default onerror=None: a directory whose listing fails
\* is skipped without any error; otherwise its files come first, then each
\* sub-directory in turn.  The result is the sequence of (root, file) pairs the
\* two for-loops of lines 17-18 go through.
RECURSIVE Walk(_, _)
RECURSIVE WalkAll(_, _)
Walk(top, d) ==
    IF ~d.listable THEN <<>>
    ELSE [k \in 1..Len(d.files) |-> [root |-> top, file |-> d.files[k]]]
         \o WalkAll(top, d.dirs)
WalkAll(top, ds) ==
    IF ds = <<>> THEN <<>>
    ELSE Walk(PathJoin(top, ds[1].name), ds[1]) \o WalkAll(top, Tail(ds))

\* file.endswith('.ts') or file.endswith('.tsx')  (line 19)
Allowed(name) ==
    EndsWith(name, <<".","t","s">>) \/ EndsWith(name, <<".","t","s","x">>)

(***************************************************************************)
(* The backward scan (lines 32-43).                                        *)
(***************************************************************************)
\* a lookback one line longer than the source's
LookbackLonger == 10 + 1

\* the 10 of range(i - 1, max(-1, i - 10), -1)
Lookback == 10

\* the range without its max(-1, ...) clamp
RangeStopNoClamp(idx) == idx - Lookback

\* the stop value of the range of line 32; the range yields k while k > stop
RangeStop(idx) == Max(-1, idx - Lookback)

\* the loop body without the decorator test of lines 40-41
LoopBodyNoDecorator(prev_line) ==
    IF prev_line = <<>> THEN "continue"
    ELSE IF EndsWith(prev_line, <<"*","/">>) \/ StartsWith(prev_line, <<"/","/","/">>)
         THEN "documented"
    ELSE "break"

\* the loop body without the final break of line 43
LoopBodyNoBreak(prev_line) ==
    IF prev_line = <<>> THEN "continue"
    ELSE IF EndsWith(prev_line, <<"*","/">>) \/ StartsWith(prev_line, <<"/","/","/">>)
         THEN "documented"
    ELSE "continue"

\* the loop body with the decorator test moved above the comment test
LoopBodyDecoratorFirst(prev_line) ==
    IF prev_line = <<>> THEN "continue"
    ELSE IF StartsWith(prev_line, <<"@">>) THEN "continue"
    ELSE IF EndsWith(prev_line, <<"*","/">>) \/ StartsWith(prev_line, <<"/","/","/">>)
         THEN "documented"
    ELSE "break"

\* lines 34-43 for one stripped line: "continue", "documented" or "break"
LoopBody(prev_line) ==
    IF prev_line = <<>> THEN "continue"
    ELSE IF EndsWith(prev_line, <<"*","/">>) \/ StartsWith(prev_line, <<"/","/","/">>)
         THEN "documented"
    ELSE IF StartsWith(prev_line, <<"@">>) THEN "continue"
    ELSE "break"

(***************************************************************************)
(* The report (lines 49-63).  A printed line is [lit, arg]: the literal    *)
(* text of the print call followed by the text computed at run time.       *)
(***************************************************************************)
\* f"{filepath}:{i+1} - {item_name}"  (line 49)
Entry(path, idx, name) == path \o <<":">> \o Str(idx + 1) \o <<" ","-"," ">> \o name

\* d * 2^s for the s that gives t <= d * 2^s < 2 * t  (0 < d <= t)
RECURSIVE Normalized(_, _)
Normalized(d, t) == IF d >= t THEN d ELSE Normalized(2 * d, t)

\* 52 more bits of the binary long division by t, taken eight at a time: the
\* remainder left, and the last eight bits of the quotient
DivBits(rem, t) ==
    LET r8 == (rem * 256) % t
        r16 == (r8 * 256) % t
        r24 == (r16 * 256) % t
        r32 == (r24 * 256) % t
        r40 == (r32 * 256) % t
        r44 == (r40 * 16) % t
    IN  [rem |-> (r44 * 256) % t, low |-> (r44 * 256) \div t]

\* The sign of (the double (d / t) * 100 of line 55) - (the real 100 d / t), for
\* 0 < d < t with 100 d / t a whole number of hundredths plus a half.  d / t is
\* rounded to 53 bits, ties to even; its product by 100 is rounded to 53 bits
\* again; both errors are kept as exact fractions of the last bit of d / t.
DoubleVsReal(d, t) ==
    LET n0 == Normalized(d, t)
        q1 == DivBits(n0 - t, t)
        c1 == IF 2 * q1.rem > t \/ (2 * q1.rem = t /\ q1.low % 2 = 1) THEN 1 ELSE 0
        m == (q1.low + c1) % 256
        k == IF 25 * n0 >= 32 * t THEN 7 ELSE 6
        r2 == (100 * m) % (2 ^ k)
        odd2 == ((100 * m) \div (2 ^ k)) % 2 = 1
        c2 == IF 2 * r2 > 2 ^ k \/ (2 * r2 = 2 ^ k /\ odd2) THEN 1 ELSE 0
        e == (c2 * (2 ^ k) - r2) * t + 100 * (c1 * t - q1.rem)
    IN  IF e > 0 THEN 1 ELSE IF e < 0 THEN -1 ELSE 0

\* f"{(d / t) * 100:.2f}" for 0 <= d <= t, t > 0: the hundredth nearest to the
\* double of line 55.  Off a tie that is the hundredth nearest to 100 d / t (the
\* double is within 10^-13 of it); at a tie the side the double fell on decides,
\* and a double that is the tie itself goes to the even hundredth.
Coverage(d, t) ==
    LET q == (d * 10000) \div t
        r == (d * 10000) % t
        side == IF 2 * r = t THEN DoubleVsReal(d, t) ELSE 0
        h == IF 2 * r > t THEN q + 1
             ELSE IF 2 * r < t THEN q
             ELSE IF side > 0 \/ (side = 0 /\ q % 2 = 1) THEN q + 1
             ELSE q
    IN  Str(h \div 100) \o <<".">> \o <<Digit((h \div 10) % 10), Digit(h % 10)>>

PrintedLine(lit, arg) == [lit |-> lit, arg |-> arg]

\* the report with the "Missing docstrings:" header printed unconditionally
PrintedAlwaysSection(total, documented, missing) ==
    IF total = 0 THEN <<PrintedLine("No exported items found.", <<>>)>>
    ELSE <<PrintedLine("Total exported items: ", Str(total)),
           PrintedLine("Items with docstrings: ", Str(documented)),
           PrintedLine("Docstring coverage: ", Coverage(documented, total) \o <<"%">>),
           PrintedLine("\nMissing docstrings:", <<>>)>>
         \o [k \in 1..Len(missing) |-> PrintedLine("", missing[k])]

\* lines 51-63: everything one call prints
Printed(total, documented, missing) ==
    IF total = 0 THEN <<PrintedLine("No exported items found.", <<>>)>>
    ELSE <<PrintedLine("Total exported items: ", Str(total)),
           PrintedLine("Items with docstrings: ", Str(documented)),
           PrintedLine("Docstring coverage: ", Coverage(documented, total) \o <<"%">>)>>
         \o (IF missing # <<>>
             THEN <<PrintedLine("\nMissing docstrings:", <<>>)>>
                  \o [k \in 1..Len(missing) |-> PrintedLine("", missing[k])]
             ELSE <<>>)

\* lines 46-47: items_with_docstrings after one export
Documented(has, n) == IF has THEN n + 1 ELSE n

\* the append without its else: every export is listed
MissingAlways(has, list, entry) == Append(list, entry)

\* the entry put at the front of the list instead of its end
MissingFront(has, list, entry) == IF has THEN list ELSE <<entry>> \o list

\* lines 48-49: missing_docstrings after one export
Missing(has, list, entry) == IF has THEN list ELSE Append(list, entry)

\* a counter kept from the call before instead of being set to 0
StaleCount(old) == old

\* lines 5-7: the values the locals start from, whatever an earlier call left
FreshCount(old) == 0
FreshList(old) == <<>>

(***************************************************************************)
(* Inputs: lines, file contents and directory trees the runs are made on.  *)
(***************************************************************************)
L_blank == <<>>
\* whitespace only: a space, a tab and a vertical tab
L_space == <<" ","\t",VT>>
\* "*/" between a no-break space and a space: the end of a block comment,
\* indented and with trailing whitespace
L_block == <<NBSP,"*","/"," ">>
\* "/// d"
L_triple == <<"/","/","/"," ","d">>
\* "@d" after a unit separator and before a next-line character: a decorator, indented
L_dec == <<US,"@","d",NEL>>
\* "@d */": a decorator line that ends like a block comment
L_decDoc == <<"@","d"," ","*","/">>
\* "x;": other code
L_code == <<"x",";">>
\* "*/;": holds the closing token but does not end with it
L_tail == <<"*","/",";">>
\* "export function f"
E_fn == W_export \o <<" ">> \o W_function \o <<" ","f">>
\* "export", a space and a tab, "async", a vertical tab and a line separator
\* (U+2028), "function", a no-break space, "g1("
E_async == W_export \o <<" ","\t">> \o W_async \o <<VT,"\\u2028">> \o W_function
           \o <<NBSP,"g","1","(">>
\* "export const h_ */": an export line that ends like a block comment
E_doc == W_export \o <<" ">> \o W_const \o <<" ","h","_"," ","*","/">>
\* "export class": no name follows, the pattern does not match
E_none == W_export \o <<" ">> \o W_class
\* "x export enum E export type T": two matches on one line
E_two == <<"x"," ">> \o W_export \o <<" ">> \o W_enum \o <<" ","E"," ">>
         \o W_export \o <<" ">> \o W_type \o <<" ","T">>

Vocab == {L_blank, L_space, L_block, L_triple, L_dec, L_decDoc, L_code, L_tail,
          E_fn, E_async, E_doc, E_none}

\* '\n'.join(ls)
RECURSIVE JoinLines(_)
JoinLines(ls) ==
    IF Len(ls) = 0 THEN <<>>
    ELSE IF Len(ls) = 1 THEN ls[1]
    ELSE LET h == Len(ls) \div 2
         IN  JoinLines(SubSeq(ls, 1, h)) \o <<"\n">> \o JoinLines(SubSeq(ls, h + 1, Len(ls)))

Rep(l, n) == [k \in 1..n |-> l]

\* every file of up to MaxShort lines of Vocab
ShortFiles == {JoinLines(ls) : ls \in UNION {[1..n -> Vocab] : n \in 1..MaxShort}}

\* files that put up to MaxGap whitespace-only, decorator and empty lines between
\* a line `top` and an export, with one more line above `top`
LongFiles ==
    {JoinLines(<<g.above, g.top>> \o Rep(L_space, g.c) \o Rep(L_dec, g.b)
               \o Rep(L_blank, g.a) \o <<E_fn>>) :
        g \in {x \in [above : {L_triple, L_code},
                       top : {L_block, L_triple, L_decDoc, L_dec, L_code, L_tail},
                       a : 0..MaxGap, b : 0..MaxGap, c : 0..MaxGap] :
                  x.a + x.b + x.c <= MaxGap}}

\* the directory check_docstrings is called on (line 66)
RootName == <<"s","r","c">>
N_a == <<"a",".","t","s">>
N_b == <<"b",".","t","s","x">>
N_n == <<"n",".","t","x","t">>
N_lib == <<"l","i","b">>

\* two documented exports, the first two lines ended by "\r\n" and "\r" /
\* three undocumented exports / no export
Doc2 == L_block \o <<"\r","\n">> \o E_fn \o <<"\r">> \o L_triple \o <<"\n">> \o E_async
Undoc3 == JoinLines(<<E_fn, L_code, E_two, L_code, E_async>>)
NoExport == JoinLines(<<L_code, E_none>>)

FileChoices ==
    {File(n, "ok", c) : n \in {N_a, N_b}, c \in {Doc2, Undoc3, NoExport}}
    \cup {File(N_a, "denied", <<>>), File(N_b, "undecodable", <<>>),
          File(N_n, "ok", Undoc3), File(N_n, "denied", <<>>)}

\* listings of up to n files with different names
FileSeqs(n) ==
    {fs \in UNION {[1..k -> FileChoices] : k \in 0..n} :
        \A x, y \in 1..Len(fs) : x # y => fs[x].name # fs[y].name}

SubDirs ==
    {<<>>,
     <<Dir(N_lib, FALSE, <<File(N_a, "ok", Undoc3)>>, <<>>)>>,
     <<Dir(N_lib, TRUE, <<>>, <<>>)>>,
     <<Dir(N_lib, TRUE, <<File(N_a, "ok", Undoc3)>>, <<>>)>>,
     <<Dir(N_lib, TRUE, <<File(N_a, "denied", <<>>)>>, <<>>)>>}

\* files of t exports, d of them documented, with 100 d / t half a hundredth
\* off a hundredth: 1/32 is a double, 23/160 and 49/160 are not
TieFiles ==
    {JoinLines(Rep(JoinLines(<<L_triple, E_fn>>), c.d) \o Rep(E_fn, c.t - c.d)) :
        c \in {[d |-> 1, t |-> 32], [d |-> 23, t |-> 160], [d |-> 49, t |-> 160]}}

Trees ==
    {Dir(RootName, TRUE, <<File(N_a, "ok", c)>>, <<>>) :
        c \in ShortFiles \cup LongFiles \cup TieFiles}
    \cup {Dir(RootName, TRUE, fs, ds) : fs \in FileSeqs(MaxFiles), ds \in SubDirs}
    \cup {Dir(RootName, FALSE, <<File(N_a, "ok", Undoc3)>>, <<>>)}

(***************************************************************************)
(* The program.                                                            *)
(***************************************************************************)
Init ==
    /\ tree \in Trees
    /\ run = 0
    /\ reports = <<>>
    /\ pc = "idle"
    /\ queue = <<>>
    /\ filepath = <<>>
    /\ lines = <<>>
    /\ i = 0
    /\ j = 0
    /\ reads = {}
    /\ item_name = <<>>
    /\ has_docstring = FALSE
    /\ total_items = 0
    /\ items_with_docstrings = 0
    /\ missing_docstrings = <<>>
    /\ out = <<>>

\* how the current call ended and what it printed
Outcome == [status |-> pc, out |-> out]

\* check_docstrings(directory) is called (lines 4-17); an earlier call's output
\* stays on the terminal, its locals are gone
Call ==
    /\ pc \in {"idle", "done", "raised"}
    /\ run < MaxRuns
    /\ run' = run + 1
    /\ reports' = IF pc = "idle" THEN reports ELSE Append(reports, Outcome)
    /\ total_items' = FreshCount(total_items)
    /\ items_with_docstrings' = FreshCount(items_with_docstrings)
    /\ missing_docstrings' = FreshList(missing_docstrings)
    /\ queue' = Walk(tree.name, tree)
    /\ out' = <<>>
    /\ filepath' = <<>> /\ lines' = <<>> /\ i' = 0 /\ j' = 0 /\ reads' = {}
    /\ item_name' = <<>> /\ has_docstring' = FALSE
    /\ pc' = "walk"
    /\ UNCHANGED tree

\* lines 18-24: the next file of the walk is skipped, fails to open or to
\* decode (the exception ends the call), or is read and split
OpenNext ==
    /\ pc = "walk"
    /\ queue # <<>>
    /\ LET root == Head(queue).root
           file == Head(queue).file
       IN  IF ~Allowed(file.name)
           THEN /\ queue' = Tail(queue)
                /\ UNCHANGED <<pc, filepath, lines, i>>
           ELSE IF file.status # "ok"
           THEN /\ pc' = "raised"
                /\ filepath' = PathJoin(root, file.name)
                /\ UNCHANGED <<queue, lines, i>>
           ELSE /\ filepath' = PathJoin(root, file.name)
                /\ lines' = Split(ReadText(file.content))
                /\ i' = 0
                /\ queue' = Tail(queue)
                /\ pc' = "lines"
    /\ UNCHANGED <<tree, run, reports, j, reads, item_name, has_docstring,
                   total_items, items_with_docstrings, missing_docstrings, out>>

\* lines 25-32: the enumeration goes on to the next line the pattern matches, or
\* to the end of the file; on a match the backward range is started
FindExport ==
    /\ pc = "lines"
    /\ LET hits == {k \in i..(Len(lines) - 1) : ExportSearch(PyIndex(lines, k)) # <<>>}
       IN  IF hits = {}
           THEN /\ pc' = "walk"
                /\ i' = Len(lines)
                /\ UNCHANGED <<j, reads, item_name, has_docstring>>
           ELSE LET k == CHOOSE x \in hits : \A y \in hits : x <= y
                IN  /\ i' = k
                    /\ item_name' = ExportSearch(PyIndex(lines, k))
                    /\ has_docstring' = FALSE
                    /\ reads' = {}
                    /\ IF k - 1 > RangeStop(k)
                       THEN j' = k - 1 /\ pc' = "scan"
                       ELSE j' = j /\ pc' = "count"
    /\ UNCHANGED <<tree, run, reports, queue, filepath, lines, total_items,
                   items_with_docstrings, missing_docstrings, out>>

\* lines 33-43: one pass of the loop body at index j, and the range's next value
ScanStep ==
    /\ pc = "scan"
    /\ IF ~InRange(lines, j)
       THEN /\ pc' = "raised"
            /\ UNCHANGED <<j, reads, has_docstring>>
       ELSE LET did == LoopBody(Strip(PyIndex(lines, j)))
            IN  /\ reads' = reads \cup {j}
                /\ has_docstring' = IF did = "documented" THEN TRUE ELSE has_docstring
                /\ IF did = "continue" /\ j - 1 > RangeStop(i)
                   THEN j' = j - 1 /\ pc' = "scan"
                   ELSE j' = j /\ pc' = "count"
    /\ UNCHANGED <<tree, run, reports, queue, filepath, lines, i, item_name,
                   total_items, items_with_docstrings, missing_docstrings, out>>

\* lines 45-49: the export is counted once
Count ==
    /\ pc = "count"
    /\ total_items' = total_items + 1
    /\ items_with_docstrings' = Documented(has_docstring, items_with_docstrings)
    /\ missing_docstrings' =
           Missing(has_docstring, missing_docstrings, Entry(filepath, i, item_name))
    /\ i' = i + 1
    /\ pc' = "lines"
    /\ UNCHANGED <<tree, run, reports, queue, filepath, lines, j, reads, item_name,
                   has_docstring, out>>

\* lines 51-63: the walk is over, the report is printed
Report ==
    /\ pc = "walk"
    /\ queue = <<>>
    /\ out' = Printed(total_items, items_with_docstrings, missing_docstrings)
    /\ pc' = "done"
    /\ UNCHANGED <<tree, run, reports, queue, filepath, lines, i, j, reads, item_name,
                   has_docstring, total_items, items_with_docstrings,
                   missing_docstrings>>

Next == Call \/ OpenNext \/ FindExport \/ ScanStep \/ Count \/ Report

Spec == Init /\ [][Next]_vars

(***************************************************************************)
(* Vocabulary of the properties.  Lines are judged after trimming, as the  *)
(* design does ("blank after trimming whitespace"); indices are 0-based.   *)
(***************************************************************************)
LineAt(k) == lines[k + 1]
Blank(l) == Strip(l) = <<>>
DocComment(l) == EndsWith(Strip(l), <<"*","/">>) \/ StartsWith(Strip(l), <<"/","/","/">>)
AtLine(l) == StartsWith(Strip(l), <<"@">>)
\* a decorator line in the glossary's sense: marked with '@' and not itself documentation
Decorator(l) == AtLine(l) /\ ~DocComment(l)

\* the export at line i has its verdict, and has not been counted yet
Settled == pc = "count"

\* the first index of the 9 lines directly above line i
WindowLow == Max(0, i - 9)

\* the verdict read off a window of lines alone: some line of it is a doc comment
\* and everything below that line is blank or a decorator
WindowVerdict(w) ==
    \E d \in 1..Len(w) :
        /\ DocComment(w[d])
        /\ \A k \in (d + 1)..Len(w) : Blank(w[k]) \/ Decorator(w[k])

DigitChars == {"0","1","2","3","4","5","6","7","8","9"}
DigitValue(c) == CHOOSE d \in 0..9 : Digit(d) = c
RECURSIVE ParseNat(_)
ParseNat(ds) ==
    IF ds = <<>> THEN 0
    ELSE 10 * ParseNat(SubSeq(ds, 1, Len(ds) - 1)) + DigitValue(ds[Len(ds)])

\* the path and the line number written in an entry "path:line - name"
ColonOf(e) == CHOOSE k \in 1..Len(e) : e[k] = ":" /\ \A m \in 1..(k - 1) : e[m] # ":"
EntryFile(e) == SubSeq(e, 1, ColonOf(e) - 1)
EntryLine(e) == ParseNat(SubSeq(e, ColonOf(e) + 1, RunEnd(e, ColonOf(e) + 1, DigitChars) - 1))

\* the paths of the walk, in enumeration order, and a path's place in it
WalkPaths ==
    LET w == Walk(tree.name, tree)
    IN  [k \in 1..Len(w) |-> PathJoin(w[k].root, w[k].file.name)]
FileRank(path) == CHOOSE k \in 1..Len(WalkPaths) : WalkPaths[k] = path

IsPrefix(a, b) == Len(a) <= Len(b) /\ SubSeq(b, 1, Len(a)) = a

\* the entries owed by one file: its export lines in ascending order whose window
\* gives no documentation
RECURSIVE UndocFrom(_, _, _, _)
UndocFrom(path, ls, lo, hi) ==
    IF lo >= hi THEN <<>>
    ELSE IF hi = lo + 1
    THEN LET name == ExportSearch(ls[lo + 1])
             w == SubSeq(ls, Max(0, lo - 9) + 1, lo)
         IN  IF name # <<>> /\ ~WindowVerdict(w) THEN <<Entry(path, lo, name)>> ELSE <<>>
    ELSE LET m == (lo + hi) \div 2
         IN  UndocFrom(path, ls, lo, m) \o UndocFrom(path, ls, m, hi)

\* the entries owed by the files of a walk, file after file
RECURSIVE ExpectedFrom(_)
ExpectedFrom(w) ==
    IF w = <<>> THEN <<>>
    ELSE (IF Allowed(w[1].file.name) /\ w[1].file.status = "ok"
          THEN LET ls == Split(ReadText(w[1].file.content))
               IN  UndocFrom(PathJoin(w[1].root, w[1].file.name), ls, 0, Len(ls))
          ELSE <<>>)
         \o ExpectedFrom(Tail(w))

\* some directory of the tree cannot be listed, or some file the scan has to
\* read cannot be read
RECURSIVE CannotRead(_)
CannotRead(d) ==
    \/ ~d.listable
    \/ \E k \in 1..Len(d.files) : Allowed(d.files[k].name) /\ d.files[k].status # "ok"
    \/ \E k \in 1..Len(d.dirs) : CannotRead(d.dirs[k])

\* the outcomes of all the calls that have ended
Outcomes == IF pc \in {"done", "raised"} THEN Append(reports, Outcome) ELSE reports

(***************************************************************************)
(* C1                                                                      *)
(***************************************************************************)
\* line d is a doc comment, not itself marked '@', and the lines between it and
\* the export are blank or start with '@', at least one of them starting with '@'
ChainAbove(d) ==
    /\ d \in 0..(i - 1)
    /\ DocComment(LineAt(d)) /\ ~AtLine(LineAt(d))
    /\ \A k \in (d + 1)..(i - 1) : Blank(LineAt(k)) \/ AtLine(LineAt(k))
    /\ \E k \in (d + 1)..(i - 1) : AtLine(LineAt(k))

\* C1 as stated: an export below a decorator chain of any length, itself below a
\* doc comment, is classified documented.
C1_AnyLengthChain == Settled => \A d \in 0..(i - 1) : ChainAbove(d) => has_docstring

\* C1 amended: an export below a decorator chain, itself below a doc comment that
\* lies within the 9 lines directly above the export, is classified documented.
C1_ChainInWindow ==
    Settled => \A d \in 0..(i - 1) : (ChainAbove(d) /\ i - d <= 9) => has_docstring

C1_Witness ==
    /\ Settled /\ has_docstring
    /\ \E d \in 0..(i - 1) :
          /\ ChainAbove(d) /\ i - d <= 9
          /\ Cardinality({k \in (d + 1)..(i - 1) : Decorator(LineAt(k))}) >= 2

(***************************************************************************)
(* C2                                                                      *)
(***************************************************************************)
\* the scan stopped at line c: it read c and nothing above it
StoppedAt(c) == c \in reads /\ \A r \in reads : r >= c

\* line c, within the lookback, is other code, and the lines between it and the
\* export are blank or start with '@'
BreakerBelowAt(c) ==
    /\ c \in WindowLow..(i - 1)
    /\ ~Blank(LineAt(c)) /\ ~AtLine(LineAt(c)) /\ ~DocComment(LineAt(c))
    /\ \A k \in (c + 1)..(i - 1) : Blank(LineAt(k)) \/ AtLine(LineAt(k))

\* the same, the '@' lines in between not ending like a block comment
BreakerBelowDecorators(c) ==
    /\ c \in WindowLow..(i - 1)
    /\ ~Blank(LineAt(c)) /\ ~AtLine(LineAt(c)) /\ ~DocComment(LineAt(c))
    /\ \A k \in (c + 1)..(i - 1) : Blank(LineAt(k)) \/ Decorator(LineAt(k))

\* C2 as stated: when the first line found above the export, skipping blank lines
\* and lines starting with '@', is other code, the scan stops there and the export
\* is undocumented.
C2_SkipEveryAtLine ==
    Settled => \A c \in 0..(i - 1) :
                  BreakerBelowAt(c) => (~has_docstring /\ StoppedAt(c))

\* C2 amended: when the first line found above the export, skipping blank lines
\* and lines that start with '@' and do not end with '*/', is other code, the
\* scan stops there and the export is undocumented, whatever lies above.
C2_ChainBreaking ==
    Settled => \A c \in 0..(i - 1) :
                  BreakerBelowDecorators(c) => (~has_docstring /\ StoppedAt(c))

C2_Witness ==
    /\ Settled /\ ~has_docstring
    /\ \E c \in 1..(i - 1) :
          /\ BreakerBelowDecorators(c)
          /\ \E k \in (c + 1)..(i - 1) : Decorator(LineAt(k))
          /\ i - (c - 1) <= 9 /\ DocComment(LineAt(c - 1))

(***************************************************************************)
(* C3                                                                      *)
(***************************************************************************)
\* C3: the scan reads at most 9 lines, all among the 9 directly above the
\* export; a doc comment with only blank lines below it is found exactly when it
\* is at most 9 lines above; a window of blank and decorator lines only gives
\* undocumented.
C3_LookbackBound ==
    /\ pc \in {"scan", "count"} =>
          /\ Cardinality(reads) <= 9
          /\ \A r \in reads : WindowLow <= r /\ r <= i - 1
    /\ pc = "scan" => i - j <= 9
    /\ Settled =>
          \A d \in 0..(i - 1) :
              (DocComment(LineAt(d)) /\ \A k \in (d + 1)..(i - 1) : Blank(LineAt(k)))
                  => (has_docstring <=> i - d <= 9)
    /\ (Settled /\ \A k \in WindowLow..(i - 1) : Blank(LineAt(k)) \/ Decorator(LineAt(k)))
          => ~has_docstring

C3_Witness ==
    /\ Settled /\ ~has_docstring
    /\ Cardinality(reads) = 9
    /\ i >= 10 /\ DocComment(LineAt(i - 10))
    /\ \A k \in (i - 9)..(i - 1) : Blank(LineAt(k))

(***************************************************************************)
(* C4                                                                      *)
(***************************************************************************)
\* C4: a call made on a tree of which a directory cannot be listed, or a file to
\* scan cannot be read, never ends by printing a report.
C4_AccessErrorsFatal == CannotRead(tree) => pc # "done"

(***************************************************************************)
(* C5                                                                      *)
(***************************************************************************)
C5_Balance ==
    /\ 0 <= items_with_docstrings
    /\ items_with_docstrings <= total_items
    /\ Len(missing_docstrings) = total_items - items_with_docstrings

C5_Step ==
    /\ pc = "count" =>
          /\ total_items' = total_items + 1
          /\ \/ /\ items_with_docstrings' = items_with_docstrings + 1
                /\ missing_docstrings' = missing_docstrings
             \/ /\ items_with_docstrings' = items_with_docstrings
                /\ Len(missing_docstrings') = Len(missing_docstrings) + 1
                /\ IsPrefix(missing_docstrings, missing_docstrings')
    /\ (pc # "count" /\ run' = run) =>
          UNCHANGED <<total_items, items_with_docstrings, missing_docstrings>>

\* C5: every export adds 1 to total_items and either 1 to items_with_docstrings
\* or one entry to missing_docstrings, nothing else changes them during a call,
\* and in every state 0 <= items_with_docstrings <= total_items and
\* len(missing_docstrings) = total_items - items_with_docstrings.
C5_Counters == [](C5_Balance) /\ [][C5_Step]_vars

C5_Witness ==
    /\ pc = "lines"
    /\ total_items >= 3 /\ items_with_docstrings >= 1 /\ Len(missing_docstrings) >= 2

(***************************************************************************)
(* C6                                                                      *)
(***************************************************************************)
\* entry a comes before entry b in discovery order (a strict order, so a list
\* whose neighbours are in order is in order throughout)
Before(a, b) ==
    \/ FileRank(EntryFile(a)) < FileRank(EntryFile(b))
    \/ EntryFile(a) = EntryFile(b) /\ EntryLine(a) < EntryLine(b)

C6_Content ==
    /\ pc = "done" => missing_docstrings = ExpectedFrom(Walk(tree.name, tree))
    /\ \A a \in 1..(Len(missing_docstrings) - 1) :
          Before(missing_docstrings[a], missing_docstrings[a + 1])

\* C6: at the end of a call missing_docstrings holds one entry for each
\* undocumented export and no other, file after file in enumeration order and by
\* ascending line within a file, no (file, line) twice; within a call the list
\* only grows at its end.
C6_MissingList ==
    [](C6_Content)
    /\ [][run' = run => IsPrefix(missing_docstrings, missing_docstrings')]_vars

C6_Witness ==
    /\ pc = "done"
    /\ items_with_docstrings >= 1
    /\ Len(missing_docstrings) >= 4
    /\ EntryFile(missing_docstrings[1]) # EntryFile(missing_docstrings[4])
    /\ EntryFile(missing_docstrings[1]) = EntryFile(missing_docstrings[2])

(***************************************************************************)
(* C7                                                                      *)
(***************************************************************************)
\* the hundredths written in "12.34%"
PercentOf(arg) ==
    LET dot == CHOOSE k \in 1..Len(arg) : arg[k] = "."
    IN  100 * ParseNat(SubSeq(arg, 1, dot - 1)) + ParseNat(SubSeq(arg, dot + 1, dot + 2))

\* C7: a call that found no export prints the notice and nothing else; a call
\* that found some prints the total, the documented count and the percentage,
\* never the notice, and then the "Missing docstrings:" section exactly when
\* missing_docstrings is not empty.
C7_Report ==
    pc = "done" =>
        IF total_items = 0
        THEN out = <<[lit |-> "No exported items found.", arg |-> <<>>]>>
        ELSE /\ \A k \in 1..Len(out) : out[k].lit # "No exported items found."
             /\ Len(out) >= 3
             /\ out[1] = [lit |-> "Total exported items: ", arg |-> Str(total_items)]
             /\ out[2] = [lit |-> "Items with docstrings: ",
                          arg |-> Str(items_with_docstrings)]
             /\ out[3].lit = "Docstring coverage: "
             /\ Len(out[3].arg) >= 5 /\ out[3].arg[Len(out[3].arg)] = "%"
             /\ LET h == PercentOf(out[3].arg)
                    e == 2 * (h * total_items - 10000 * items_with_docstrings)
                IN  -total_items <= e /\ e <= total_items
             /\ missing_docstrings = <<>> => Len(out) = 3
             /\ missing_docstrings # <<>> =>
                   /\ Len(out) = 4 + Len(missing_docstrings)
                   /\ out[4] = [lit |-> "\nMissing docstrings:", arg |-> <<>>]
                   /\ \A k \in 1..Len(missing_docstrings) :
                         out[4 + k] = [lit |-> "", arg |-> missing_docstrings[k]]

C7_Witness == pc = "done" /\ total_items = 0 /\ lines # <<>> /\ Len(out) = 1

(***************************************************************************)
(* C8                                                                      *)
(***************************************************************************)
\* C8: all the calls made on the unchanged tree end the same way and print the
\* same report.
C8_SameReports ==
    \A a, b \in 1..Len(Outcomes) : Outcomes[a] = Outcomes[b]

C8_Witness ==
    /\ reports # <<>> /\ pc = "done"
    /\ items_with_docstrings >= 1 /\ missing_docstrings # <<>>

(***************************************************************************)
(* C9                                                                      *)
(***************************************************************************)
\* line b, within the lookback, starts with '@' and ends with '*/', and only
\* blank lines lie between it and the export
BothAbove(b) ==
    /\ b \in WindowLow..(i - 1)
    /\ AtLine(LineAt(b)) /\ EndsWith(Strip(LineAt(b)), <<"*","/">>)
    /\ \A k \in (b + 1)..(i - 1) : Blank(LineAt(k))

\* C9: when the first non-blank line above the export both starts with '@' and
\* ends with '*/', the export is documented and the scan stops at that line.
C9_CommentFirst ==
    Settled => \A b \in 0..(i - 1) : BothAbove(b) => (has_docstring /\ StoppedAt(b))

C9_Witness ==
    /\ Settled /\ has_docstring
    /\ \E b \in 1..(i - 1) :
          BothAbove(b) /\ ~Blank(LineAt(b - 1)) /\ ~DocComment(LineAt(b - 1))

(***************************************************************************)
(* C10                                                                     *)
(***************************************************************************)
\* C10: every index the scan reads lies in max(0, i-9)..i-1; an export on the
\* first line reads nothing and is undocumented; the verdict is the one the at
\* most 9 lines directly above the export give by themselves.
C10_ScanInsideFile ==
    /\ pc = "scan" => (WindowLow <= j /\ j <= i - 1)
    /\ pc \in {"scan", "count"} => \A r \in reads : WindowLow <= r /\ r <= i - 1
    /\ (Settled /\ i = 0) => (reads = {} /\ ~has_docstring)
    /\ Settled => (has_docstring <=> WindowVerdict(SubSeq(lines, WindowLow + 1, i)))

C10_Witness ==
    /\ Settled /\ i = 0 /\ reads = {} /\ ~has_docstring
    /\ Len(lines) >= 2 /\ DocComment(lines[Len(lines)])

====
